---------------------------- MODULE Spec2Model ----------------------------
(***************************************************************************)
(* Compact transaction-output codec of src/src/compressor.h:               *)
(*   CScriptCompressor  (Serialize / Unserialize of a script)              *)
(*   CTxOutCompressor   (CompressAmount / DecompressAmount, and the        *)
(*                       serialization of an (amount, script) pair)        *)
(*                                                                         *)
(* Bytes are integers 0..255 and a script or a stream is a sequence of     *)
(* bytes.  A 64-bit unsigned integer is kept as three decimal limbs,        *)
(* least significant first, because the amounts exceed the integers of     *)
(* the model checker.                                                      *)
(***************************************************************************)
EXTENDS Integers, Sequences, FiniteSets, TLC

VARIABLES
    pc,         \* position of the caller: what has been done to the stream
    kind,       \* "script" | "txout" | "crafted": what the stream holds
    txout,      \* CTxOut being encoded: [nValue, scriptPubKey]
    target,     \* CTxOut being decoded into (caller-owned, mutated in place)
    vch,        \* the bytes of the stream
    nReadPos,   \* the read cursor of the stream (bytes consumed)
    result,     \* "none" | "ok" | "failure" (the stream primitive threw)
    policyArgs, \* the nSize of every NonSpecialScriptUnserializer call
    prior,      \* the script the target held when the decode began
    startPos,   \* the cursor when the decode of the script began
    nVal,       \* the compressed amount last computed or read
    marker,     \* value of the sibling field written after the script
    markerOut   \* value of the sibling field as read back

vars == <<pc, kind, txout, target, vch, nReadPos, result, policyArgs, prior,
          startPos, nVal, marker, markerOut>>

---------------------------------------------------------------------------
(* uint64_t arithmetic on three limbs of seven decimal digits              *)

\* a number is <<lo, mid, hi>> = lo + mid * Base + hi * Base^2, lo and mid
\* below Base; hi holds the rest, so that intermediate results of up to
\* 128 * 2^64 are represented exactly before they are reduced mod 2^64
Base == 10000000

Zero == <<0, 0, 0>>

\* of a natural below 2^31 (its high limb is 0)
ToBig(n) == <<n % Base, n \div Base, 0>>

\* defined for numbers below 2^31 only (tags, lengths)
FromBig(x) == x[1] + Base * x[2]

IsSmall(x) == x[3] = 0 /\ x[2] < 200

\* x * m + c for naturals m <= 128 and c < Base
BigMulAdd(x, m, c) ==
    LET v1 == x[1] * m + c
        v2 == x[2] * m + (v1 \div Base)
        v3 == x[3] * m + (v2 \div Base)
    IN  <<v1 % Base, v2 % Base, v3>>

\* quotient and remainder of x by a positive m <= 128
BigDiv(x, m) ==
    LET r3 == x[3] % m
        v2 == r3 * Base + x[2]
        v1 == (v2 % m) * Base + x[1]
    IN  <<v1 \div m, v2 \div m, x[3] \div m>>

BigMod(x, m) == ((((x[3] % m) * Base + x[2]) % m) * Base + x[1]) % m

BigLeq(x, y) ==
    \/ x[3] < y[3]
    \/ x[3] = y[3] /\ x[2] < y[2]
    \/ x[3] = y[3] /\ x[2] = y[2] /\ x[1] <= y[1]

\* x - y for x >= y
BigSub(x, y) ==
    LET b1 == IF x[1] < y[1] THEN 1 ELSE 0
        b2 == IF x[2] < y[2] + b1 THEN 1 ELSE 0
    IN  <<x[1] + b1 * Base - y[1],
          x[2] + b2 * Base - y[2] - b1,
          x[3] - y[3] - b2>>

\* 2^64 = 18446744073709551616
TwoTo64 == <<9551616, 4407370, 184467>>

\* x mod 2^64: the value a uint64_t keeps
RECURSIVE U64(_)
U64(x) == IF BigLeq(TwoTo64, x) THEN U64(BigSub(x, TwoTo64)) ELSE x

\* x * 10^e in uint64_t, as the loop "while (e) { n *= 10; e--; }"
RECURSIVE ScaleUp(_, _)
ScaleUp(n, e) == IF e = 0 THEN n ELSE ScaleUp(U64(BigMulAdd(n, 10, 0)), e - 1)

---------------------------------------------------------------------------
(* CTxOutCompressor::CompressAmount / DecompressAmount                     *)

\* mutant: the stripping stops at 8 zeros instead of 9
RECURSIVE StripZeros_Cap8(_, _)
StripZeros_Cap8(n, e) ==
    IF BigMod(n, 10) = 0 /\ e < 8 THEN StripZeros_Cap8(BigDiv(n, 10), e + 1)
    ELSE [n |-> n, e |-> e]

\* while (((n % 10) == 0) && e < 9) { n /= 10; e++; }   (n > 0)
RECURSIVE StripZeros(_, _)
StripZeros(n, e) ==
    IF BigMod(n, 10) = 0 /\ e < 9 THEN StripZeros(BigDiv(n, 10), e + 1)
    ELSE [n |-> n, e |-> e]

CompressAmount(nAmount) ==
    IF nAmount = Zero THEN Zero
    ELSE LET s == StripZeros(nAmount, 0)
         IN  IF s.e < 9
             THEN LET d  == BigMod(s.n, 10)
                      n1 == BigDiv(s.n, 10)
                      \* 1 + (n * 9 + d - 1) * 10 + e
                      t  == U64(BigMulAdd(n1, 9, d - 1))
                  IN  U64(BigMulAdd(U64(BigMulAdd(t, 10, s.e)), 1, 1))
             ELSE \* 1 + (n - 1) * 10 + 9
                  U64(BigMulAdd(U64(BigMulAdd(BigSub(s.n, ToBig(1)), 10, 9)), 1, 1))

DecompressAmount(nAmount) ==
    IF nAmount = Zero THEN Zero
    ELSE LET x0 == BigSub(nAmount, ToBig(1))
             e  == BigMod(x0, 10)
             x1 == BigDiv(x0, 10)
         IN  IF e < 9
             THEN LET d == BigMod(x1, 9) + 1
                      x2 == BigDiv(x1, 9)
                  IN  ScaleUp(U64(BigMulAdd(x2, 10, d)), e)
             ELSE ScaleUp(U64(BigMulAdd(x1, 1, 1)), e)

---------------------------------------------------------------------------
(* Collaborators of the codec: the stream, VARINT, the script opcodes and  *)
(* the public-key primitive.  Their code is not part of compressor.h.      *)

Fill(n, b) == [i \in 1..n |-> b]

\* n bytes, the last one z and the others a
Payload(n, a, z) == [i \in 1..n |-> IF i = n THEN z ELSE a]

OP_FALSE == 0
OP_RETURN == 106
OP_DUP == 118
OP_EQUAL == 135
OP_EQUALVERIFY == 136
OP_HASH160 == 169
OP_CHECKSIG == 172

\* maximum script length; scaled down so that a declared length can exceed
\* it while every special shape (at most 67 bytes) stays within it
MAX_SCRIPT_SIZE_AFTER_GENESIS == 70

\* WriteVarInt: base-128 digits, most significant first, every byte but the
\* last flagged with 0x80, each higher digit stored minus one
RECURSIVE VarIntHigh(_)
VarIntHigh(n) ==
    IF BigLeq(n, ToBig(127)) THEN <<>>
    ELSE LET m == BigSub(BigDiv(n, 128), ToBig(1))
         IN  VarIntHigh(m) \o <<BigMod(m, 128) + 128>>

WriteVarInt(n) == VarIntHigh(n) \o <<BigMod(n, 128)>>

\* ReadVarInt from the byte after position pos; reading past the end of the
\* stream is a failure of the stream
RECURSIVE ReadVarIntRec(_, _, _)
ReadVarIntRec(s, pos, n) ==
    IF pos >= Len(s) THEN [ok |-> FALSE, n |-> Zero, pos |-> pos]
    ELSE LET chData == s[pos + 1]
             n2 == BigMulAdd(n, 128, chData % 128)
         IN  IF chData >= 128
             THEN ReadVarIntRec(s, pos + 1, BigMulAdd(n2, 1, 1))
             ELSE [ok |-> TRUE, n |-> n2, pos |-> pos + 1]

ReadVarInt(s, pos) == ReadVarIntRec(s, pos, Zero)

\* s >> CFlatData(v) with v of n bytes: all n bytes or a failure
StreamRead(s, pos, n) ==
    IF pos + n <= Len(s)
    THEN [ok |-> TRUE, bytes |-> SubSeq(s, pos + 1, pos + n), pos |-> pos + n]
    ELSE [ok |-> FALSE, bytes |-> <<>>, pos |-> pos]

\* s.ignore(n): skips n bytes or fails
StreamIgnore(s, pos, n) ==
    IF pos + n <= Len(s)
    THEN [ok |-> TRUE, pos |-> pos + n]
    ELSE [ok |-> FALSE, pos |-> pos]

\* The curve of the public keys, abstracted: an abscissa x either is on the
\* curve or not, and one that is has exactly two ordinates, one even and
\* one odd.
OnCurveX(x) == (x[1] + x[32]) % 3 # 0

PointY(x, odd) ==
    [i \in 1..32 |-> IF i = 32 THEN ((x[i] * 3 + 7) % 128) * 2 + odd
                               ELSE (x[i] * 3 + 7) % 256]

\* CPubKey::IsFullyValid
IsFullyValid(key) ==
    IF Len(key) = 33 /\ key[1] \in {2, 3}
    THEN OnCurveX(SubSeq(key, 2, 33))
    ELSE IF Len(key) = 65 /\ key[1] = 4
    THEN /\ OnCurveX(SubSeq(key, 2, 33))
         /\ SubSeq(key, 34, 65) = PointY(SubSeq(key, 2, 33), key[65] % 2)
    ELSE FALSE

\* CPubKey::Decompress of the 33-byte key <<prefix>> \o x
PubKeyDecompress(prefix, x) ==
    IF OnCurveX(x)
    THEN [ok |-> TRUE, key |-> <<4>> \o x \o PointY(x, prefix - 2)]
    ELSE [ok |-> FALSE, key |-> <<>>]

---------------------------------------------------------------------------
(* CScriptCompressor                                                       *)

nSpecialScripts == 6

P2PKH(hash) == <<OP_DUP, OP_HASH160, 20>> \o hash \o <<OP_EQUALVERIFY, OP_CHECKSIG>>
P2SH(hash) == <<OP_HASH160, 20>> \o hash \o <<OP_EQUAL>>
P2PK(key) == <<Len(key)>> \o key \o <<OP_CHECKSIG>>

IsToKeyID(script) ==
    /\ Len(script) = 25
    /\ script[1] = OP_DUP
    /\ script[2] = OP_HASH160
    /\ script[3] = 20
    /\ script[24] = OP_EQUALVERIFY
    /\ script[25] = OP_CHECKSIG

IsToScriptID(script) ==
    /\ Len(script) = 23
    /\ script[1] = OP_HASH160
    /\ script[2] = 20
    /\ script[23] = OP_EQUAL

IsToPubKey(script) ==
    \/ /\ Len(script) = 35
       /\ script[1] = 33
       /\ script[35] = OP_CHECKSIG
       /\ script[2] \in {2, 3}
       /\ IsFullyValid(SubSeq(script, 2, 34))
    \/ /\ Len(script) = 67
       /\ script[1] = 65
       /\ script[67] = OP_CHECKSIG
       /\ script[2] = 4
       /\ IsFullyValid(SubSeq(script, 2, 66))

\* Compress: [ok, out], out being the tag byte followed by the payload
Compress(script) ==
    IF IsToKeyID(script)
    THEN [ok |-> TRUE, out |-> <<0>> \o SubSeq(script, 4, 23)]
    ELSE IF IsToScriptID(script)
    THEN [ok |-> TRUE, out |-> <<1>> \o SubSeq(script, 3, 22)]
    ELSE IF IsToPubKey(script)
    THEN IF script[2] \in {2, 3}
         THEN [ok |-> TRUE, out |-> <<script[2]>> \o SubSeq(script, 3, 34)]
         ELSE [ok |-> TRUE,
               out |-> <<4 + (script[66] % 2)>> \o SubSeq(script, 3, 34)]
    ELSE [ok |-> FALSE, out |-> <<>>]

GetSpecialSize(nSize) ==
    IF nSize \in {0, 1} THEN 20
    ELSE IF nSize \in {2, 3, 4, 5} THEN 32
    ELSE 0

\* Decompress(nSize, in) on a compressor bound to `script`: [ok, script]
Decompress(nSize, in, script) ==
    IF nSize = 0 THEN [ok |-> TRUE, script |-> P2PKH(in)]
    ELSE IF nSize = 1 THEN [ok |-> TRUE, script |-> P2SH(in)]
    ELSE IF nSize \in {2, 3} THEN [ok |-> TRUE, script |-> P2PK(<<nSize>> \o in)]
    ELSE IF nSize \in {4, 5}
    THEN LET pubkey == PubKeyDecompress(nSize - 2, in)
         IN  IF pubkey.ok
             THEN [ok |-> TRUE, script |-> P2PK(pubkey.key)]
             ELSE [ok |-> FALSE, script |-> script]
    ELSE [ok |-> FALSE, script |-> script]

\* mutant: the return after the compressed form is missing
SerializeScript_NoReturn(script) ==
    LET compr == Compress(script)
    IN  (IF compr.ok THEN compr.out ELSE <<>>)
        \o WriteVarInt(ToBig(Len(script) + nSpecialScripts)) \o script

\* mutant: the length is written without the shift by nSpecialScripts
SerializeScript_NoShift(script) ==
    LET compr == Compress(script)
    IN  IF compr.ok THEN compr.out
        ELSE WriteVarInt(ToBig(Len(script))) \o script

\* the bytes CScriptCompressor::Serialize appends to the stream
SerializeScript(script) ==
    LET compr == Compress(script)
    IN  IF compr.ok THEN compr.out
        ELSE WriteVarInt(ToBig(Len(script) + nSpecialScripts)) \o script

\* script.resize(nSize): cut, or padded with zero bytes
Resize(script, nSize) ==
    [i \in 1..nSize |-> IF i <= Len(script) THEN script[i] ELSE 0]

\* mutant: the script is not resized, the bytes read are appended to it
NonSpecialScriptUnserializer_NoResize(s, pos, script, nSize) ==
    LET r == StreamRead(s, pos, nSize)
    IN  IF r.ok
        THEN [result |-> "ok", script |-> script \o r.bytes, pos |-> r.pos]
        ELSE [result |-> "failure", script |-> script, pos |-> r.pos]

\* NonSpecialScriptUnserializer<Stream>::Unserialize(self, s, nSize)
NonSpecialScriptUnserializer(s, pos, script, nSize) ==
    LET r == StreamRead(s, pos, nSize)
    IN  IF r.ok
        THEN [result |-> "ok", script |-> r.bytes, pos |-> r.pos]
        ELSE [result |-> "failure", script |-> Resize(script, nSize), pos |-> r.pos]

\* the tag is one of the special scripts: its payload is read and expanded;
\* what Decompress returns is not looked at
UnserializeSpecial(s, pos, script, nSize) ==
    LET r == StreamRead(s, pos, GetSpecialSize(nSize))
    IN  IF ~r.ok
        THEN [result |-> "failure", script |-> script, pos |-> r.pos,
              policy |-> <<>>]
        ELSE [result |-> "ok",
              script |-> Decompress(nSize, r.bytes, script).script,
              pos |-> r.pos, policy |-> <<>>]

\* mutant: the bound is compared with >=
IsOversized_OffByOne(nSize) == nSize >= MAX_SCRIPT_SIZE_AFTER_GENESIS

\* nSize > MAX_SCRIPT_SIZE_AFTER_GENESIS
IsOversized(nSize) == nSize > MAX_SCRIPT_SIZE_AFTER_GENESIS

\* mutant: the declared bytes are not skipped
UnserializeOversized_NoIgnore(s, pos, script, nSize) ==
    [result |-> "ok", script |-> script \o <<OP_FALSE, OP_RETURN>>,
     pos |-> pos, policy |-> <<>>]

\* an overly long script: script << OP_FALSE << OP_RETURN; s.ignore(nSize)
UnserializeOversized(s, pos, script, nSize) ==
    LET ig == StreamIgnore(s, pos, nSize)
    IN  [result |-> IF ig.ok THEN "ok" ELSE "failure",
         script |-> script \o <<OP_FALSE, OP_RETURN>>,
         pos |-> ig.pos, policy |-> <<>>]

\* CScriptCompressor::Unserialize on a compressor bound to `script`, reading
\* s from position pos: [result, script, pos, policy], policy being the
\* arguments of the calls of NonSpecialScriptUnserializer
UnserializeScript(s, pos, script) ==
    LET v == ReadVarInt(s, pos)
        nSize == FromBig(v.n)
    IN  IF ~v.ok
        THEN [result |-> "failure", script |-> script, pos |-> v.pos, policy |-> <<>>]
        ELSE IF nSize < nSpecialScripts
        THEN UnserializeSpecial(s, v.pos, script, nSize)
        ELSE IF IsOversized(nSize - nSpecialScripts)
        THEN UnserializeOversized(s, v.pos, script, nSize - nSpecialScripts)
        ELSE LET u == NonSpecialScriptUnserializer(s, v.pos, script,
                                                   nSize - nSpecialScripts)
             IN  [result |-> u.result, script |-> u.script, pos |-> u.pos,
                  policy |-> <<nSize - nSpecialScripts>>]

---------------------------------------------------------------------------
(* CTxOutCompressor::SerializationOp                                       *)

SerializeTxOut(out) ==
    WriteVarInt(CompressAmount(out.nValue)) \o SerializeScript(out.scriptPubKey)

\* mutant: the amount read is stored as it is, DecompressAmount is not applied
UnserializeTxOut_NoDecompress(s, pos, out) ==
    LET v == ReadVarInt(s, pos)
    IN  IF ~v.ok
        THEN [result |-> "failure", txout |-> out, pos |-> v.pos,
              scriptPos |-> v.pos, nVal |-> Zero, policy |-> <<>>]
        ELSE LET u == UnserializeScript(s, v.pos, out.scriptPubKey)
             IN  [result |-> u.result,
                  txout |-> [nValue |-> v.n, scriptPubKey |-> u.script],
                  pos |-> u.pos, scriptPos |-> v.pos, nVal |-> v.n,
                  policy |-> u.policy]

\* the decode of SerializationOp: [result, txout, pos, scriptPos, nVal, policy]
UnserializeTxOut(s, pos, out) ==
    LET v == ReadVarInt(s, pos)
    IN  IF ~v.ok
        THEN [result |-> "failure", txout |-> out, pos |-> v.pos,
              scriptPos |-> v.pos, nVal |-> Zero, policy |-> <<>>]
        ELSE LET u == UnserializeScript(s, v.pos, out.scriptPubKey)
             IN  [result |-> u.result,
                  txout |-> [nValue |-> DecompressAmount(v.n),
                             scriptPubKey |-> u.script],
                  pos |-> u.pos, scriptPos |-> v.pos, nVal |-> v.n,
                  policy |-> u.policy]

---------------------------------------------------------------------------
(* Inputs                                                                  *)

MaxZeros == 15      \* trailing decimal zeros of the sampled amounts
MaxSmallLen == 2    \* lengths 0..MaxSmallLen around every length boundary
MaxPrior == 2       \* length of what the target script holds before a decode
MaxCut == 2         \* bytes a truncated stream misses

ByteSamples == {1, 200}
MarkerValues == {7, 300}

\* 2^63 - 1, the largest Amount
MaxAmount == <<4775807, 7203685, 92233>>

RECURSIVE Times10(_, _)
Times10(x, k) == IF k = 0 THEN x ELSE Times10(BigMulAdd(x, 10, 0), k - 1)

Mantissas == {1, 5, 9, 21, 123, 2099, 92233}

AmountInputs ==
    {a \in {Times10(ToBig(m), k) : m \in Mantissas, k \in 0..MaxZeros} :
        BigLeq(a, MaxAmount)}
    \* 0, the largest amount, and the amounts around (2^64 - 1) / 9
    \cup {Zero, MaxAmount, BigDiv(MaxAmount, 2)}
    \cup {BigMulAdd(BigDiv(BigSub(TwoTo64, ToBig(1)), 9), 1, k) : k \in 0..9}

TxAmounts == {Zero, ToBig(1), ToBig(123456), Times10(ToBig(5), 9), MaxAmount}

Hashes == {Payload(20, a, z) : a \in ByteSamples, z \in ByteSamples}
XCoords == {Payload(32, a, z) : a \in ByteSamples, z \in ByteSamples}

SpecialLooking ==
    {P2PKH(h) : h \in Hashes} \cup {P2SH(h) : h \in Hashes}
    \cup {P2PK(<<p>> \o x) : p \in {2, 3}, x \in XCoords}
    \cup {P2PK(<<4>> \o x \o PointY(x, odd)) : x \in XCoords, odd \in {0, 1}}
    \* near misses: a key off the curve, a wrong prefix, a wrong last opcode
    \cup {P2PK(<<4>> \o x \o x) : x \in XCoords}
    \cup {P2PK(<<5>> \o x) : x \in XCoords}
    \cup {<<OP_DUP, OP_HASH160, 20>> \o h \o <<OP_EQUALVERIFY, OP_EQUAL>> : h \in Hashes}
    \cup {<<OP_HASH160, 20>> \o h \o <<OP_CHECKSIG>> : h \in Hashes}

Around(n) == {k \in (n - MaxSmallLen)..(n + MaxSmallLen) : k >= 0}

RawLens == Around(0) \cup Around(MAX_SCRIPT_SIZE_AFTER_GENESIS)

\* lengths at which the VARINT of length + 6 grows by a byte
SizeLens == Around(0) \cup Around(121) \cup Around(122) \cup Around(16505)

ScriptInputs == SpecialLooking \cup {Fill(n, b) : n \in RawLens, b \in ByteSamples}

SizedScriptInputs == SpecialLooking \cup {Fill(n, b) : n \in SizeLens, b \in ByteSamples}

PriorScripts == {Fill(n, 81) : n \in 0..MaxPrior}

\* tags an attacker may put in front of a payload
CraftTags ==
    0..(nSpecialScripts + MaxSmallLen)
    \cup {nSpecialScripts + n : n \in Around(MAX_SCRIPT_SIZE_AFTER_GENESIS)}
    \cup {200}

\* the bytes the decode of tag t goes on to read or skip
Needed(t) == IF t < nSpecialScripts THEN GetSpecialSize(t) ELSE t - nSpecialScripts

NoTxOut == [nValue |-> Zero, scriptPubKey |-> <<>>]

---------------------------------------------------------------------------
(* The codec at work: a caller encodes into a stream, or is handed a       *)
(* stream, and decodes from it.                                            *)

Init ==
    /\ pc = "start"
    /\ kind = "none"
    /\ txout = NoTxOut
    /\ target = NoTxOut
    /\ vch = <<>>
    /\ nReadPos = 0
    /\ result = "none"
    /\ policyArgs = <<>>
    /\ prior = <<>>
    /\ startPos = 0
    /\ nVal = Zero
    /\ marker = <<>>
    /\ markerOut = <<>>

\* CScriptCompressor(script).Serialize(s)
SerializeFrom(scripts) ==
    /\ pc = "start"
    /\ \E script \in scripts :
        /\ txout' = [nValue |-> Zero, scriptPubKey |-> script]
        /\ vch' = vch \o SerializeScript(script)
    /\ pc' = "written"
    /\ kind' = "script"
    /\ UNCHANGED <<target, nReadPos, result, policyArgs, prior, startPos, nVal,
                   marker, markerOut>>

Serialize == SerializeFrom(ScriptInputs)

\* CTxOutCompressor(txout) written to the stream
SerializeTxOutAction ==
    /\ pc = "start"
    /\ \E a \in TxAmounts, script \in ScriptInputs :
        LET out == [nValue |-> a, scriptPubKey |-> script]
        IN  /\ txout' = out
            /\ nVal' = CompressAmount(a)
            /\ vch' = vch \o SerializeTxOut(out)
    /\ pc' = "written"
    /\ kind' = "txout"
    /\ UNCHANGED <<target, nReadPos, result, policyArgs, prior, startPos,
                   marker, markerOut>>

\* a stream that no encoder wrote: any tag, in front of as many bytes as
\* the decode of that tag asks for
Craft ==
    /\ pc = "start"
    /\ \E t \in CraftTags, a \in ByteSamples, z \in ByteSamples :
        vch' = WriteVarInt(ToBig(t)) \o Payload(Needed(t), a, z)
    /\ pc' = "written"
    /\ kind' = "crafted"
    /\ UNCHANGED <<txout, target, nReadPos, result, policyArgs, prior, startPos,
                   nVal, marker, markerOut>>

\* a sibling field of the same record, serialized right after the script
WriteMarker ==
    /\ pc = "written"
    /\ \E m \in MarkerValues :
        /\ marker' = <<m>>
        /\ vch' = vch \o WriteVarInt(ToBig(m))
    /\ pc' = "framed"
    /\ UNCHANGED <<kind, txout, target, nReadPos, result, policyArgs, prior,
                   startPos, nVal, markerOut>>

\* the stream reaches the decoder cut short
Truncate ==
    /\ pc = "written"
    /\ \E k \in 1..MaxCut :
        /\ k <= Len(vch)
        /\ vch' = SubSeq(vch, 1, Len(vch) - k)
    /\ pc' = "framed"
    /\ UNCHANGED <<kind, txout, target, nReadPos, result, policyArgs, prior,
                   startPos, nVal, marker, markerOut>>

\* CScriptCompressor(scriptIn).Unserialize(s), scriptIn holding what the
\* caller left in it
Unserialize ==
    /\ pc \in {"written", "framed"}
    /\ kind \in {"script", "crafted"}
    /\ \E scriptIn \in PriorScripts :
        LET u == UnserializeScript(vch, nReadPos, scriptIn)
        IN  /\ prior' = scriptIn
            /\ target' = [target EXCEPT !.scriptPubKey = u.script]
            /\ nReadPos' = u.pos
            /\ result' = u.result
            /\ policyArgs' = policyArgs \o u.policy
    /\ startPos' = nReadPos
    /\ pc' = "decoded"
    /\ UNCHANGED <<kind, txout, vch, nVal, marker, markerOut>>

\* CTxOutCompressor(txoutIn) read from the stream
UnserializeTxOutAction ==
    /\ pc \in {"written", "framed"}
    /\ kind = "txout"
    /\ \E scriptIn \in PriorScripts :
        LET u == UnserializeTxOut(vch, nReadPos,
                                  [nValue |-> Zero, scriptPubKey |-> scriptIn])
        IN  /\ prior' = scriptIn
            /\ target' = u.txout
            /\ nReadPos' = u.pos
            /\ startPos' = u.scriptPos
            /\ result' = u.result
            /\ nVal' = u.nVal
            /\ policyArgs' = policyArgs \o u.policy
    /\ pc' = "decoded"
    /\ UNCHANGED <<kind, txout, vch, marker, markerOut>>

\* the sibling field is read back after a decode that returned
ReadMarker ==
    /\ pc = "decoded"
    /\ result = "ok"
    /\ marker # <<>>
    /\ LET v == ReadVarInt(vch, nReadPos)
       IN  /\ markerOut' = IF v.ok /\ IsSmall(v.n) THEN <<FromBig(v.n)>> ELSE <<-1>>
           /\ nReadPos' = v.pos
    /\ pc' = "done"
    /\ UNCHANGED <<kind, txout, target, vch, result, policyArgs, prior, startPos,
                   nVal, marker>>

Next ==
    \/ Serialize
    \/ SerializeTxOutAction
    \/ Craft
    \/ WriteMarker
    \/ Truncate
    \/ Unserialize
    \/ UnserializeTxOutAction
    \/ ReadMarker

Spec == Init /\ [][Next]_vars

---------------------------------------------------------------------------
(* The encoded size of scripts, lengths around the VARINT boundaries       *)

SerializeSized == SerializeFrom(SizedScriptInputs)

NextSize == SerializeSized \/ WriteMarker

SpecSize == Init /\ [][NextSize]_vars

---------------------------------------------------------------------------
(* The amount transform applied to sampled amounts                         *)

InitAmount ==
    /\ pc = "start"
    /\ kind = "amount"
    /\ txout \in {[nValue |-> a, scriptPubKey |-> <<>>] : a \in AmountInputs}
    /\ target = NoTxOut
    /\ vch = <<>>
    /\ nReadPos = 0
    /\ result = "none"
    /\ policyArgs = <<>>
    /\ prior = <<>>
    /\ startPos = 0
    /\ nVal = Zero
    /\ marker = <<>>
    /\ markerOut = <<>>

CompressAmountAction ==
    /\ pc = "start"
    /\ kind = "amount"
    /\ nVal' = CompressAmount(txout.nValue)
    /\ pc' = "compressed"
    /\ UNCHANGED <<kind, txout, target, vch, nReadPos, result, policyArgs,
                   prior, startPos, marker, markerOut>>

DecompressAmountAction ==
    /\ pc = "compressed"
    /\ kind = "amount"
    /\ target' = [target EXCEPT !.nValue = DecompressAmount(nVal)]
    /\ pc' = "decompressed"
    /\ UNCHANGED <<kind, txout, vch, nReadPos, result, policyArgs, prior,
                   startPos, nVal, marker, markerOut>>

NextAmount == CompressAmountAction \/ DecompressAmountAction

SpecAmount == InitAmount /\ [][NextAmount]_vars

---------------------------------------------------------------------------
(* Properties                                                              *)

\* what the decode of the script found at its start: the tag, and where
\* the tag ends
TagRead == ReadVarInt(vch, startPos)
Tag == FromBig(TagRead.n)
AfterDecode == pc \in {"decoded", "done"}
Oversized == TagRead.ok /\ Tag >= nSpecialScripts
             /\ Tag - nSpecialScripts > MAX_SCRIPT_SIZE_AFTER_GENESIS

\* the bytes the encoder wrote, and whether the stream still starts with them
Written ==
    IF kind = "txout" THEN SerializeTxOut(txout)
    ELSE SerializeScript(txout.scriptPubKey)
Intact ==
    /\ kind \in {"script", "txout"}
    /\ Len(vch) >= Len(Written)
    /\ SubSeq(vch, 1, Len(Written)) = Written

\* 2049638230412172402, the largest amount a not ending in 0 for which
\* 9 * a + (a % 10) - 9, its compressed form, is below 2^64
AmountThreshold == <<2172402, 3823041, 20496>>

\* the amounts whose compressed form does not wrap around 2^64
InAmountDomain(a) == BigLeq(a, AmountThreshold) \/ BigMod(a, 10) = 0

\* C1, as stated: every amount from 0 to 2^63 - 1 survives
\* DecompressAmount(CompressAmount(a)).
C1_RoundTripEveryAmount ==
    pc = "decompressed" => target.nValue = txout.nValue

\* C1, amended: every amount up to 2049638230412172402, and every larger
\* amount ending in a decimal zero, survives
\* DecompressAmount(CompressAmount(a)).
C1_RoundTripInDomain ==
    (pc = "decompressed" /\ InAmountDomain(txout.nValue))
        => target.nValue = txout.nValue

C1_Witness ==
    /\ pc = "decompressed"
    /\ txout.nValue = Times10(ToBig(21), 15)
    /\ nVal = ToBig(210000000)     \* 1 + (21000000 - 1) * 10 + 9
    /\ target.nValue = txout.nValue

\* C2: a decode that meets a declared length above the maximum returns with
\* the script being exactly the 2-byte placeholder and the cursor advanced by
\* exactly the declared length past the tag.
C2_OversizedPlaceholder ==
    (pc = "decoded" /\ result = "ok" /\ Oversized)
        => /\ target.scriptPubKey = <<OP_FALSE, OP_RETURN>>
           /\ nReadPos = TagRead.pos + (Tag - nSpecialScripts)

\* C3, as stated: every script of no special shape is written as
\* VARINT(length + 6) followed by its bytes and decodes to itself.
C3_RawRoundTripEveryScript ==
    (kind = "script" /\ ~Compress(txout.scriptPubKey).ok)
        => /\ pc = "written" =>
                vch = WriteVarInt(ToBig(Len(txout.scriptPubKey) + 6))
                        \o txout.scriptPubKey
           /\ (AfterDecode /\ Intact) =>
                (result = "ok" /\ target.scriptPubKey = txout.scriptPubKey)

\* C3, amended: every script of no special shape is written as
\* VARINT(length + 6) followed by its bytes, and decodes to itself when its
\* length is at most MAX_SCRIPT_SIZE_AFTER_GENESIS.
C3_RawRoundTrip ==
    (kind = "script" /\ ~Compress(txout.scriptPubKey).ok)
        => /\ pc = "written" =>
                vch = WriteVarInt(ToBig(Len(txout.scriptPubKey) + 6))
                        \o txout.scriptPubKey
           /\ (AfterDecode /\ Intact
                 /\ Len(txout.scriptPubKey) <= MAX_SCRIPT_SIZE_AFTER_GENESIS) =>
                (result = "ok" /\ target.scriptPubKey = txout.scriptPubKey)

C3_Witness ==
    /\ pc = "decoded"
    /\ kind = "script"
    /\ ~Compress(txout.scriptPubKey).ok
    /\ Len(txout.scriptPubKey) = MAX_SCRIPT_SIZE_AFTER_GENESIS
    /\ Len(prior) > 0
    /\ target.scriptPubKey = txout.scriptPubKey

\* C4: a script of a special shape is written as a tag in 0..5 followed by
\* exactly GetSpecialSize(tag) bytes; the decode of that output reads exactly
\* that many bytes after the tag and yields the script.
C4_SpecialRoundTrip ==
    (kind = "script" /\ Compress(txout.scriptPubKey).ok)
        => /\ pc = "written" =>
                /\ vch[1] \in 0..5
                /\ Len(vch) = 1 + GetSpecialSize(vch[1])
                /\ vch[1] \in {0, 1} => Len(vch) = 21
                /\ vch[1] \in {2, 3, 4, 5} => Len(vch) = 33
           /\ (AfterDecode /\ Intact) =>
                /\ result = "ok"
                /\ target.scriptPubKey = txout.scriptPubKey
           /\ (pc = "decoded" /\ Intact) =>
                nReadPos = startPos + 1 + GetSpecialSize(vch[1])

C4_Witness ==
    /\ pc = "decoded"
    /\ kind = "script"
    /\ Len(txout.scriptPubKey) = 67
    /\ vch[1] = 5
    /\ Len(prior) > 0
    /\ target.scriptPubKey = txout.scriptPubKey

\* C5: after a decode that returned, the cursor is at the first byte after
\* the field (tag, then 20, 32 or tag - 6 bytes), and a sibling field
\* written right after the script is read back with its value.
C5_CursorAfterField ==
    /\ (pc = "decoded" /\ result = "ok") =>
            nReadPos = TagRead.pos + Needed(Tag)
    /\ pc = "done" => markerOut = marker

C5_Witness ==
    /\ pc = "done"
    /\ Oversized
    /\ marker = <<300>>
    /\ markerOut = <<300>>

\* an output as the data model has it: a non-negative amount of 64 bits and
\* a script within the maximum length
IsTxOut(out) == Len(out.scriptPubKey) <= MAX_SCRIPT_SIZE_AFTER_GENESIS

H20 == Payload(20, 1, 200)

TxOutWritten ==
    (kind = "txout" /\ pc = "written") =>
        /\ nVal = CompressAmount(txout.nValue)
        /\ vch = WriteVarInt(nVal) \o SerializeScript(txout.scriptPubKey)
        /\ (txout.nValue = <<0, 500, 0>> /\ txout.scriptPubKey = P2PKH(H20))
              => vch = <<50, 0>> \o H20

\* C6, as stated: an output is written as VARINT(CompressAmount(amount))
\* followed by the encoding of its script, and every output decodes to
\* itself; 5000000000 with P2PKH(H) is written as 50, 0, H.
C6_TxOutRoundTripEveryOutput ==
    /\ TxOutWritten
    /\ (kind = "txout" /\ AfterDecode /\ Intact /\ IsTxOut(txout)) =>
            (result = "ok" /\ target = txout)

\* C6, amended: as stated, for the outputs whose amount is in the domain of
\* the amount round trip (C1, amended).
C6_TxOutRoundTrip ==
    /\ TxOutWritten
    /\ (kind = "txout" /\ AfterDecode /\ Intact /\ IsTxOut(txout)
          /\ InAmountDomain(txout.nValue)) =>
            (result = "ok" /\ target = txout /\ nVal = CompressAmount(txout.nValue))

C6_Witness ==
    /\ pc = "decoded"
    /\ kind = "txout"
    /\ txout = [nValue |-> <<0, 500, 0>>, scriptPubKey |-> P2PKH(H20)]
    /\ vch = <<50, 0>> \o H20
    /\ Len(prior) > 0
    /\ target = txout

\* C7: P2PKH and P2SH scripts take 21 bytes, P2PK scripts 33; any other
\* script takes 1 byte more than its length up to 121 bytes, and 2 bytes
\* more from 122 to 16505 bytes.
C7_EncodedSize ==
    (kind = "script" /\ pc = "written") =>
        LET script == txout.scriptPubKey
        IN  /\ (IsToKeyID(script) \/ IsToScriptID(script)) => Len(vch) = 21
            /\ IsToPubKey(script) => Len(vch) = 33
            /\ (~Compress(script).ok /\ Len(script) <= 121)
                  => Len(vch) = 1 + Len(script)
            /\ (~Compress(script).ok /\ Len(script) >= 122 /\ Len(script) <= 16505)
                  => Len(vch) = 2 + Len(script)

C7_Witness ==
    /\ pc = "written"
    /\ Len(txout.scriptPubKey) = 16505
    /\ Len(vch) = 16507

\* C8: a decode whose stream holds fewer bytes than the tag asks for ends in
\* a failure, and a decode that returns has completed every step of the
\* decoding unless the declared length was oversized.
C8_FailuresSurfaced ==
    pc = "decoded" =>
        /\ (~TagRead.ok \/ Len(vch) < TagRead.pos + Needed(Tag))
              => result = "failure"
        /\ (result = "ok" /\ Tag < nSpecialScripts) =>
              Decompress(Tag, SubSeq(vch, TagRead.pos + 1, nReadPos), prior).ok

\* C9: NonSpecialScriptUnserializer is called exactly when the tag t is at
\* least 6 and t - 6 is at most the maximum, once, with t - 6.
C9_PolicyDispatch ==
    AfterDecode =>
        policyArgs = IF /\ TagRead.ok
                        /\ Tag >= nSpecialScripts
                        /\ Tag - nSpecialScripts <= MAX_SCRIPT_SIZE_AFTER_GENESIS
                     THEN <<Tag - nSpecialScripts>>
                     ELSE <<>>

C9_Witness ==
    /\ pc = "decoded"
    /\ kind = "crafted"
    /\ result = "ok"
    /\ Tag = nSpecialScripts + MAX_SCRIPT_SIZE_AFTER_GENESIS
    /\ policyArgs = <<MAX_SCRIPT_SIZE_AFTER_GENESIS>>

\* C10: the script a decode returns is the one every other run over the same
\* bytes returns, whatever the target script held before.
C10_TargetIndependent ==
    (pc = "decoded" /\ result = "ok") =>
        \A scriptIn \in PriorScripts :
            UnserializeScript(vch, startPos, scriptIn).script = target.scriptPubKey

=============================================================================
